---- MODULE Spec2Model ----
(***************************************************************************)
(* Model of multitaper/om.py: cross_spectrogram(data, dt, twin, olap, nw,  *)
(* kspec, fmin, fmax, iadapt, vn, lamb, wl).                               *)
(*                                                                         *)
(* One call of the function is one behaviour.  The call is cut into the    *)
(* steps whose order the properties below talk about: the window geometry  *)
(* (lines 89-105), the taper generation (line 113), one step per           *)
(* (pair, window) iteration of the nested loop (lines 115-158) and the     *)
(* return statement (lines 160-163).                                       *)
(*                                                                         *)
(* Numbers.  dt and twin are whole multiples of one time unit and olap,    *)
(* fmin and fmax are rationals <<num, den>>.  The values drawn are small   *)
(* dyadic rationals (plus olap = 99/100, the documented upper limit, which *)
(* meets no rounding tie for twin/dt < 50), for which the float            *)
(* expressions of lines 92 and 96 are exact, so np.round is modelled by    *)
(* exact round-half-to-even.                                               *)
(*                                                                         *)
(* Data.  The function never inspects the samples; it only slices them.    *)
(* data is therefore its shape (npts, nvars) plus the position of one run  *)
(* of non-finite samples in one channel.                                   *)
(***************************************************************************)
EXTENDS Integers, Sequences, FiniteSets

VARIABLES
    args,      \* the call's arguments: dt, twin, olap, fmin, fmax, vn, lamb
    data,      \* [npts, nvars, gapChan, gapStart, gapLen]
    pc,        \* "start", "tapers", "loop", "return", "done", "error"
    fmax,      \* local fmax after line 90, <<num, den>>
    nwin, njump, nvec, nspec, npairs,   \* locals of lines 92-105
    vn, theta, \* locals bound by line 113 (vn starts as the argument)
    dpssCalls, \* number of calls of utils.dpss so far
    j, i,      \* loop indices of lines 115 and 118 (0-based)
    calls,     \* the MTCross calls made so far, with their arguments
    fres,      \* local fres of line 142
    allocLog,  \* the <<j, i>> at which lines 142-150 ran, in order
    cube,      \* Sxx..trf, per <<j, i>> column: unbound, zero or set
    err        \* the exception leaving the function: [kind, coord]

vars == <<args, data, pc, fmax, nwin, njump, nvec, nspec, npairs, vn, theta,
          dpssCalls, j, i, calls, fres, allocLog, cube, err>>

-----------------------------------------------------------------------------
(* Bounds of the input space *)

MaxTwin == 4
MaxDt == 2
MaxNpts == 5
MaxVars == 3
MaxGap == 1

DtSet == 1..MaxDt
NvarsSet == 2..MaxVars
\* olap: 0 (no overlap), 1/4, 1/2 (the default), 3/4, 99/100
OlapSet == {<<0, 1>>, <<1, 4>>, <<1, 2>>, <<3, 4>>, <<99, 100>>}
\* (fmin, fmax): the defaults (0.0, -1.0) and the band [1/4, 1/2]
BandSet == {<< <<0, 1>>, <<-1, 1>> >>, << <<1, 4>>, <<1, 2>> >>}

NoTaper == [src |-> "none", n |-> 0]
CallerVn == [src |-> "caller_vn", n |-> 0]
CallerLamb == [src |-> "caller_lamb", n |-> 0]

-----------------------------------------------------------------------------
(* Pure helpers *)

\* int(np.round(num/den)) for num >= 0, den > 0: round half to even
RoundHalfEven(num, den) ==
    LET q == num \div den
        r == num % den
    IN  IF 2 * r < den THEN q
        ELSE IF 2 * r > den THEN q + 1
        ELSE IF q % 2 = 0 THEN q ELSE q + 1

\* line 92
NwinOf(twin, dt) == RoundHalfEven(twin, dt)

\* lines 93-96
NjumpOf(twin, dt, olap, nw_) ==
    IF olap[1] <= 0 THEN nw_
    ELSE RoundHalfEven(twin * (olap[2] - olap[1]), olap[2] * dt)

\* lines 89-90: fmax <= 0.0 becomes the Nyquist frequency 0.5/dt
FmaxOf(fm, dt) == IF fm[1] <= 0 THEN <<1, 2 * dt>> ELSE fm

NmaxPlusOne(npts, nw_) == npts - nw_ + 1

\* line 99
NmaxOf(npts, nw_) == npts - nw_

RECURSIVE ArangeInclusive(_, _, _)
ArangeInclusive(start, stop, step) ==
    IF start > stop THEN <<>>
    ELSE <<start>> \o ArangeInclusive(start + step, stop, step)

\* line 100: np.arange(start, stop, step) for step > 0: the values
\* start, start+step, ... of the half-open interval [start, stop)
RECURSIVE Arange(_, _, _)
Arange(start, stop, step) ==
    IF start >= stop THEN <<>>
    ELSE <<start>> \o Arange(start + step, stop, step)

\* line 104: itertools.combinations(range(nvars), 2), in lexicographic order
PairSet(nv) == {p \in (0..nv-1) \X (0..nv-1) : p[1] < p[2]}
PairRank(p, nv) ==
    Cardinality({q \in PairSet(nv) :
                    q[1] < p[1] \/ (q[1] = p[1] /\ q[2] < p[2])})
Pairs(nv) ==
    [idx \in 1..Cardinality(PairSet(nv)) |->
        CHOOSE p \in PairSet(nv) : PairRank(p, nv) = idx - 1]

CeilDiv(a, b) == (a + b - 1) \div b

SliceStopExclusive(i2) == i2

\* lines 126-127: the slices are data[i1 : i2 + 1, .]
SliceStop(i2) == i2 + 1

\* the rows a Python slice lo:hi selects from an axis of length npts
SliceRows(lo, hi, npts) == {n \in 0..npts-1 : lo <= n /\ n < hi}

IsNonFinite(n, chan) ==
    /\ chan = data.gapChan
    /\ data.gapStart <= n
    /\ n < data.gapStart + data.gapLen

\* non-finite samples of the window starting at i1, over both channels
NonFiniteIn(i1, nw_, k, l) ==
    LET rows == SliceRows(i1, SliceStop(i1 + nw_), data.npts)
    IN  Cardinality({n \in rows : IsNonFinite(n, k)})
        + Cardinality({n \in rows : IsNonFinite(n, l)})

\* utils.dpss(nwin, nw, kspec): the tapers and their eigenvalues
DpssVn(nw_) == [src |-> "dpss_vn", n |-> nw_]
DpssTheta(nw_) == [src |-> "dpss_theta", n |-> nw_]

\* MTCross(...).freq: the non-negative frequencies k/(nwin*dt), k = 0..nwin/2
FreqLen(nw_) == nw_ \div 2 + 1

\* line 142: np.where((freq2 >= fmin) & (freq2 <= fmax))[0]
Fres(nw_, dt, fmn, fmx) ==
    {k \in 0..FreqLen(nw_)-1 :
        /\ fmn[1] * nw_ * dt <= k * fmn[2]
        /\ k * fmx[2] <= fmx[1] * nw_ * dt}

AllocCondEachPair(jj, ii) == ii = 0

\* line 141: if j == i == 0
AllocCond(jj, ii) == jj = 0 /\ ii = 0

EstimatorCallArgLamb(jj, ii, ok) ==
    LET p == Pairs(data.nvars)[jj + 1]
        i1 == nvec[ii + 1]
        i2 == i1 + nwin
    IN  [j |-> jj, i |-> ii, i1 |-> i1,
         lenx |-> Cardinality(SliceRows(i1, SliceStop(i2), data.npts)),
         leny |-> Cardinality(SliceRows(i1, SliceStop(i2), data.npts)),
         nbad |-> NonFiniteIn(i1, nwin, p[1], p[2]),
         vn |-> vn, lamb |-> args.lamb, ok |-> ok]

\* lines 122-135: the MTCross call of iteration (jj, ii) and what it is given
EstimatorCall(jj, ii, ok) ==
    LET p == Pairs(data.nvars)[jj + 1]
        i1 == nvec[ii + 1]
        i2 == i1 + nwin
    IN  [j |-> jj, i |-> ii, i1 |-> i1,
         lenx |-> Cardinality(SliceRows(i1, SliceStop(i2), data.npts)),
         leny |-> Cardinality(SliceRows(i1, SliceStop(i2), data.npts)),
         nbad |-> NonFiniteIn(i1, nwin, p[1], p[2]),
         vn |-> vn, lamb |-> theta, ok |-> ok]

Unbound == [st |-> "unbound", fres |-> {}]
Zero == [st |-> "zero", fres |-> {}]

NoErr == [kind |-> "none", coord |-> <<>>]

-----------------------------------------------------------------------------
(* Initial states: the arguments of one call *)

ArgsSet ==
    {[dt |-> d, twin |-> tw, olap |-> o, fmin |-> b[1], fmax |-> b[2],
      vn |-> t[1], lamb |-> t[2]] :
        d \in DtSet, tw \in 1..MaxTwin, o \in OlapSet, b \in BandSet,
        t \in {<<NoTaper, NoTaper>>, <<CallerVn, CallerLamb>>}}

\* spec section 8: twin = 10 s, dt = 1 s, overlap 0.5, npts = 100
ExampleArgs ==
    [dt |-> 1, twin |-> 10, olap |-> <<1, 2>>, fmin |-> <<0, 1>>,
     fmax |-> <<-1, 1>>, vn |-> NoTaper, lamb |-> NoTaper]

DataSet(nptsSet, nvSet) ==
    {[npts |-> n, nvars |-> v, gapChan |-> 0, gapStart |-> 0, gapLen |-> 0] :
        n \in nptsSet, v \in nvSet}
    \cup
    {d \in [npts : nptsSet, nvars : nvSet, gapChan : 0..MaxVars-1,
            gapStart : 0..MaxNpts, gapLen : 1..MaxGap] :
        /\ d.gapChan < d.nvars
        /\ d.gapStart + d.gapLen <= d.npts}

ExampleData ==
    {[npts |-> 100, nvars |-> 2, gapChan |-> 0, gapStart |-> g, gapLen |-> l] :
        g \in {0, 50}, l \in 0..MaxGap}

Init ==
    /\ \/ args \in ArgsSet /\ data \in DataSet(1..MaxNpts, NvarsSet)
       \/ args = ExampleArgs /\ data \in ExampleData
    /\ pc = "start"
    /\ fmax = args.fmax
    /\ nwin = 0 /\ njump = 0 /\ nvec = <<>> /\ nspec = 0 /\ npairs = 0
    /\ vn = args.vn /\ theta = NoTaper
    /\ dpssCalls = 0
    /\ j = 0 /\ i = 0
    /\ calls = {}
    /\ fres = {}
    /\ allocLog = <<>>
    /\ cube = [c \in {} |-> Unbound]
    /\ err = NoErr

-----------------------------------------------------------------------------
(* Steps *)

\* lines 89-111 when np.arange accepts the step
Geometry ==
    /\ pc = "start"
    /\ LET nw_ == NwinOf(args.twin, args.dt)
           nj == NjumpOf(args.twin, args.dt, args.olap, nw_)
           nv == Arange(0, NmaxOf(data.npts, nw_), nj)
       IN  /\ nj > 0
           /\ fmax' = FmaxOf(args.fmax, args.dt)
           /\ nwin' = nw_
           /\ njump' = nj
           /\ nvec' = nv
           /\ nspec' = Len(nv)
           /\ npairs' = Len(Pairs(data.nvars))
           /\ cube' = [c \in (0..Len(Pairs(data.nvars))-1) \X (0..Len(nv)-1)
                          |-> Unbound]
    /\ pc' = "tapers"
    /\ UNCHANGED <<args, data, vn, theta, dpssCalls, j, i, calls, fres,
                   allocLog, err>>

\* lines 89-100 when njump = 0: np.arange(0, nmax, 0) divides by zero
GeometryZeroStep ==
    /\ pc = "start"
    /\ LET nw_ == NwinOf(args.twin, args.dt)
           nj == NjumpOf(args.twin, args.dt, args.olap, nw_)
       IN  /\ nj = 0
           /\ fmax' = FmaxOf(args.fmax, args.dt)
           /\ nwin' = nw_
           /\ njump' = nj
    /\ pc' = "error"
    /\ err' = [kind |-> "ZeroDivisionError", coord |-> <<>>]
    /\ UNCHANGED <<args, data, nvec, nspec, npairs, vn, theta, dpssCalls,
                   j, i, calls, fres, allocLog, cube>>

\* line 113: vn, theta = utils.dpss(nwin, nw, kspec), whatever vn and lamb
\* the caller passed; then the loops of lines 115 and 118 are entered
Taper ==
    /\ pc = "tapers"
    /\ vn' = DpssVn(nwin)
    /\ theta' = DpssTheta(nwin)
    /\ dpssCalls' = dpssCalls + 1
    /\ j' = 0 /\ i' = 0
    /\ pc' = IF npairs > 0 /\ nspec > 0 THEN "loop" ELSE "return"
    /\ UNCHANGED <<args, data, fmax, nwin, njump, nvec, nspec, npairs, calls,
                   fres, allocLog, cube, err>>

\* lines 118-158: iteration (j, i) when MTCross returns
WindowOk ==
    /\ pc = "loop"
    /\ calls' = calls \cup {EstimatorCall(j, i, TRUE)}
    /\ LET alloc == AllocCond(j, i)
           fr == IF alloc THEN Fres(nwin, args.dt, args.fmin, fmax) ELSE fres
           cb == IF alloc THEN [c \in DOMAIN cube |-> Zero] ELSE cube
       IN  /\ fres' = fr
           /\ allocLog' = IF alloc THEN Append(allocLog, <<j, i>>) ELSE allocLog
           /\ cube' = [cb EXCEPT ![<<j, i>>] = [st |-> "set", fres |-> fr]]
    /\ IF i + 1 < nspec THEN /\ i' = i + 1 /\ j' = j /\ pc' = "loop"
       ELSE IF j + 1 < npairs THEN /\ i' = 0 /\ j' = j + 1 /\ pc' = "loop"
       ELSE /\ i' = i /\ j' = j /\ pc' = "return"
    /\ UNCHANGED <<args, data, fmax, nwin, njump, nvec, nspec, npairs, vn,
                   theta, dpssCalls, err>>

\* lines 125-135: iteration (j, i) when MTCross raises; nothing catches it
WindowFail ==
    /\ pc = "loop"
    /\ calls' = calls \cup {EstimatorCall(j, i, FALSE)}
    /\ pc' = "error"
    /\ err' = [kind |-> "MTCrossException", coord |-> <<>>]
    /\ UNCHANGED <<args, data, fmax, nwin, njump, nvec, nspec, npairs, vn,
                   theta, dpssCalls, j, i, fres, allocLog, cube>>

\* lines 160-163 with Sxx..trf and f bound
ReturnOk ==
    /\ pc = "return"
    /\ allocLog # <<>>
    /\ pc' = "done"
    /\ UNCHANGED <<args, data, fmax, nwin, njump, nvec, nspec, npairs, vn,
                   theta, dpssCalls, j, i, calls, fres, allocLog, cube, err>>

\* lines 160-163 when the loop body never ran: Sxx is not bound
ReturnUnbound ==
    /\ pc = "return"
    /\ allocLog = <<>>
    /\ pc' = "error"
    /\ err' = [kind |-> "UnboundLocalError", coord |-> <<>>]
    /\ UNCHANGED <<args, data, fmax, nwin, njump, nvec, nspec, npairs, vn,
                   theta, dpssCalls, j, i, calls, fres, allocLog, cube>>

Next ==
    \/ Geometry
    \/ GeometryZeroStep
    \/ Taper
    \/ WindowOk
    \/ WindowFail
    \/ ReturnOk
    \/ ReturnUnbound

Spec == Init /\ [][Next]_vars

-----------------------------------------------------------------------------
(* Properties *)

PastGeometry == pc # "start" /\ err.kind # "ZeroDivisionError"

OkCalls == {c \in calls : c.ok}

CoordBefore(c, d) == c.j < d.j \/ (c.j = d.j /\ c.i <= d.i)

\* C1: for dt > 0, nwin >= 1, njump >= 1 and npts > nwin the window starts
\* are 0, njump, 2*njump, ... inside [0, npts-nwin), there are
\* ceil((npts-nwin)/njump) of them and each satisfies start + nwin <= npts;
\* twin = 10, dt = 1, olap = 0.5, npts = 100 gives nwin = 10, njump = 5 and
\* the 18 starts 0, 5, ..., 85.
C1_WindowStarts ==
    /\ (PastGeometry /\ nwin >= 1 /\ njump >= 1 /\ data.npts > nwin) =>
          /\ nspec = CeilDiv(data.npts - nwin, njump)
          /\ Len(nvec) = nspec
          /\ \A k \in 1..Len(nvec) :
                /\ nvec[k] = (k - 1) * njump
                /\ 0 <= nvec[k] /\ nvec[k] < data.npts - nwin
                /\ nvec[k] + nwin <= data.npts
    /\ (PastGeometry /\ args = ExampleArgs /\ data.npts = 100) =>
          /\ nwin = 10 /\ njump = 5 /\ nspec = 18
          /\ nvec = [k \in 1..18 |-> 5 * (k - 1)]

C1_Witness ==
    /\ pc = "done" /\ args = ExampleArgs /\ data.npts = 100
    /\ nspec = 18 /\ nvec[18] = 85

\* C2 (as claimed): a window whose slice holds more non-finite samples, over
\* both channels, than 10% of nwin is never handed to the estimator and its
\* cube column is never written.
C2_SkipMissingData ==
    /\ \A c \in calls : 10 * c.nbad <= nwin
    /\ \A c \in DOMAIN cube :
          (PastGeometry
           /\ 10 * NonFiniteIn(nvec[c[2] + 1], nwin,
                               Pairs(data.nvars)[c[1] + 1][1],
                               Pairs(data.nvars)[c[1] + 1][2]) > nwin)
          => cube[c].st # "set"

\* C3 (as claimed): with nspec = 0 or nwin < 1 the call ends in a
\* ConfigurationError, raised before the tapers are generated and before any
\* estimator call; it ends in no other failure and returns nothing.
C3_ConfigurationError ==
    (pc \in {"done", "error"} /\ (nwin < 1 \/ (PastGeometry /\ nspec = 0))) =>
        /\ pc = "error"
        /\ err.kind = "ConfigurationError"
        /\ dpssCalls = 0
        /\ calls = {}

\* C4 (as claimed): window_duration = npts*dt with overlap 0 yields exactly
\* one window, nspec = 1 and nvec = [0].
C4_SingleWindowOriginal ==
    (pc # "start" /\ args.olap[1] = 0 /\ args.twin = data.npts * args.dt) =>
        /\ PastGeometry
        /\ nspec = 1
        /\ nvec = <<0>>

\* C4 (amended): with overlap 0, window_duration = (npts-1)*dt (nwin =
\* npts-1) yields exactly one window, nspec = 1 and nvec = [0], while
\* window_duration = npts*dt (nwin = npts) yields no window at all.
C4_SingleWindow ==
    (pc # "start" /\ args.olap[1] = 0) =>
        /\ (args.twin = (data.npts - 1) * args.dt) =>
              PastGeometry /\ nwin = data.npts - 1 /\ nspec = 1 /\ nvec = <<0>>
        /\ (args.twin = data.npts * args.dt) =>
              PastGeometry /\ nwin = data.npts /\ nspec = 0 /\ nvec = <<>>

C4_Witness ==
    /\ pc = "done" /\ args.olap[1] = 0
    /\ args.twin = (data.npts - 1) * args.dt
    /\ nspec = 1 /\ Cardinality(OkCalls) = npairs

\* C5 (as claimed): with vn and lamb supplied the taper generator is not
\* called and every estimator call is given exactly the supplied set; the
\* generator is called, once, only when none is supplied.
C5_PrecomputedTapers ==
    /\ (args.vn # NoTaper /\ args.lamb # NoTaper) =>
          /\ dpssCalls = 0
          /\ \A c \in calls : c.vn = args.vn /\ c.lamb = args.lamb
    /\ (args.vn = NoTaper /\ args.lamb = NoTaper) =>
          /\ dpssCalls <= 1
          /\ \A c \in calls : c.vn = DpssVn(nwin) /\ c.lamb = DpssTheta(nwin)

\* C6: the taper set is computed at most once per call, before the first
\* estimator call, and every estimator call, for every window and every
\* pair, is given that same set (same vn, same weights).
C6_SharedTapers ==
    /\ dpssCalls <= 1
    /\ calls # {} => dpssCalls = 1
    /\ \A c \in calls :
          /\ c.vn = DpssVn(nwin) /\ c.lamb = DpssTheta(nwin)
          /\ c.vn = vn /\ c.lamb = theta
    /\ \A c, d \in calls : c.vn = d.vn /\ c.lamb = d.lamb

C6_Witness ==
    /\ pc = "done" /\ npairs >= 2 /\ nspec >= 2
    /\ Cardinality(calls) = npairs * nspec
    /\ dpssCalls = 1

\* C7 (as claimed): an estimator failure at (pair j, window i) leaves the
\* call as a WindowEstimationError that carries the coordinate (j, i); no
\* later window is estimated and no result is returned.
C7_WindowEstimationError ==
    (\E c \in calls : ~c.ok) =>
        /\ pc = "error"
        /\ err.kind = "WindowEstimationError"
        /\ err.coord = <<j, i>>
        /\ \A c \in calls : ~c.ok => \A d \in calls : CoordBefore(d, c)

\* C8: both segments of every estimator call cover start..start+nwin
\* inclusive: they hold nwin+1 samples each, start+nwin is a valid index
\* (< npts), and the two segments have the same length.
C8_InclusiveSlices ==
    \A c \in calls :
        /\ c.i1 = nvec[c.i + 1]
        /\ c.i1 + nwin < data.npts
        /\ c.lenx = nwin + 1
        /\ c.leny = nwin + 1
        /\ c.lenx = c.leny

C8_Witness ==
    /\ pc = "done"
    /\ \E c \in calls : c.i >= 1 /\ c.i1 + nwin = data.npts - 1
                        /\ c.lenx = nwin + 1

C10_PositiveStep ==
    (pc # "start" /\ nwin >= 1) =>
        /\ njump >= 1
        /\ err.kind # "ZeroDivisionError"
        /\ pc \in {"return", "done"} => Cardinality(calls) = nspec * npairs

====
